---------------------------- MODULE Spec2Model ----------------------------
(***************************************************************************)
(* Column descriptors of root/utility/tableColumns.js.                     *)
(*                                                                         *)
(* JavaScript values are tagged records (field t), so that null,           *)
(* undefined, strings, numbers, booleans, objects, functions and React     *)
(* elements can be told apart and compared.  A closure is a record naming  *)
(* its code and holding its captured variables.  A call of an imported     *)
(* collaborator (lp_attributes, formatDate, ...) is a symbolic term.       *)
(***************************************************************************)
EXTENDS Integers, Sequences, FiniteSets, TLC

VARIABLES
    data,            \* the rows handed to the table (read-only inputs)
    linkedEntities,  \* the linked-entity registry (imported, line 15)
    rendered,        \* the last descriptor built and the cell rendered from it
    again,           \* the same factory call and cell evaluation, repeated
    columns          \* the descriptors assembled into one table

vars == <<data, linkedEntities, rendered, again, columns>>

\* ------------------------------------------------------------------ bounds
MaxActions == 3
MaxColumns == 2

\* ------------------------------------------------------- JavaScript values
Undefined == [t |-> "undefined"]
Null == [t |-> "null"]
TypeError == [t |-> "TypeError"]
None == [t |-> "none"]
Str(s) == [t |-> "string", s |-> s]
Num(n) == [t |-> "number", n |-> n]
Bool(b) == [t |-> "boolean", b |-> b]
Array(items) == [t |-> "array", items |-> items]
Fn(code, env) == [t |-> "function", code |-> code, env |-> env]
Term(fn, args) == [t |-> "call", fn |-> fn, args |-> args]
Element(type, props) == [t |-> "element", type |-> type, props |-> props]
Fragment(key, children) == [t |-> "fragment", key |-> key, children |-> children]

Nullish(v) == v.t \in {"null", "undefined"}

Truthy(v) ==
    CASE v.t \in {"null", "undefined"} -> FALSE
      [] v.t = "string" -> v.s # ""
      [] v.t = "number" -> v.n # 0
      [] v.t = "boolean" -> v.b
      [] OTHER -> TRUE

\* a ?? b
Coalesce(a, b) ==
    IF a = TypeError THEN TypeError ELSE IF Nullish(a) THEN b ELSE a

\* o.f, o[f]: reading a property an object lacks gives undefined
Get(o, f) == IF f \in DOMAIN o THEN o[f] ELSE Undefined

\* o.f on a possibly null o raises
GetProp(o, f) == IF Nullish(o) \/ o = TypeError THEN TypeError ELSE Get(o, f)

\* o?.f
OptGet(o, f) ==
    IF o = TypeError THEN TypeError ELSE IF Nullish(o) THEN Undefined ELSE Get(o, f)

\* a default parameter value applies to an omitted (undefined) argument
Default(arg, dflt) == IF arg = Undefined THEN dflt ELSE arg

\* what evaluating an expression gives: its value and the collaborator calls made
Return(v) == [out |-> v, calls |-> <<>>]
Invoke(fn, args) == [out |-> Term(fn, args), calls |-> <<Term(fn, args)>>]

\* o[key] on a registry table keyed by numeric id
Index(o, key) ==
    IF Nullish(o) \/ o = TypeError THEN TypeError
    ELSE IF key.t = "number" /\ key.n \in DOMAIN o.entries THEN o.entries[key.n]
    ELSE Undefined

\* a caller-supplied extraction function row => row.field
Extract(field) == Fn("extract", <<Str(field)>>)
CallFn(f, x) == GetProp(x, f.env[1].s)

\* --------------------------------------------------------- header (shared)
SortableHeader(label, name, order, sortable) ==
    IF Truthy(sortable)
    THEN Element("SortableTableHeader",
                 [label |-> label, name |-> name, order |-> order])
    ELSE label

\* ------------------------------------------------------------- factories
\* mutant: the id counts the descriptors built so far
defineCheckboxColumn_counting(name) ==
    [Cell |-> Fn("defineCheckboxColumn.Cell", <<name>>),
     Header |-> Element("input", [type |-> Str("checkbox")]),
     accessor |-> Str("id"),
     className |-> Str("checkbox-cell"),
     id |-> IF rendered = None THEN Str("checkbox") ELSE Str("checkbox-2")]

defineCheckboxColumn(name) ==
    [Cell |-> Fn("defineCheckboxColumn.Cell", <<name>>),
     Header |-> Element("input", [type |-> Str("checkbox")]),
     accessor |-> Str("id"),
     className |-> Str("checkbox-cell"),
     id |-> Str("checkbox")]

instrumentDescriptionColumn ==
    [Cell |-> Fn("instrumentDescriptionColumn.Cell", <<>>),
     Header |-> Term("N_l", <<Str("Description")>>),
     accessor |-> Str("description"),
     className |-> Undefined,
     id |-> Undefined]

defineNameColumn(title, order, sortable) ==
    [Cell |-> Fn("defineNameColumn.Cell", <<>>),
     Header |-> SortableHeader(title, Str("name"),
                               Default(order, Str("")), Default(sortable, Bool(FALSE))),
     accessor |-> Str("name"),
     className |-> Undefined,
     id |-> Str("name")]

defineTypeColumn(typeContext, order, sortable) ==
    [Cell |-> Fn("defineTypeColumn.Cell", <<typeContext>>),
     Header |-> SortableHeader(Term("l", <<Str("Type")>>), Str("type"),
                               Default(order, Str("")), Default(sortable, Bool(FALSE))),
     accessor |-> Str("typeName"),
     className |-> Undefined,
     id |-> Str("type")]

defineTextColumn(getText, columnName, title, order, sortable) ==
    [Cell |-> Fn("defineTextColumn.Cell", <<getText>>),
     Header |-> SortableHeader(title, columnName,
                               Default(order, Str("")), Default(sortable, Bool(FALSE))),
     accessor |-> Fn("defineTextColumn.accessor", <<getText>>),
     className |-> Undefined,
     id |-> columnName]

defineEntityColumn(getEntity, columnName, title, order, sortable) ==
    [Cell |-> Fn("defineEntityColumn.Cell", <<getEntity>>),
     Header |-> SortableHeader(title, columnName,
                               Default(order, Str("")), Default(sortable, Bool(FALSE))),
     accessor |-> Fn("defineEntityColumn.accessor", <<getEntity>>),
     className |-> Undefined,
     id |-> columnName]

\* mutant: the order token is not handed to the header
defineBeginDateColumn_noOrder(order, sortable) ==
    [Cell |-> Fn("defineBeginDateColumn.Cell", <<>>),
     Header |-> SortableHeader(Term("l", <<Str("Begin")>>), Str("begin_date"),
                               Str(""), Default(sortable, Bool(FALSE))),
     accessor |-> Str("begin_date"),
     className |-> Undefined,
     id |-> Str("begin_date")]

defineBeginDateColumn(order, sortable) ==
    [Cell |-> Fn("defineBeginDateColumn.Cell", <<>>),
     Header |-> SortableHeader(Term("l", <<Str("Begin")>>), Str("begin_date"),
                               Default(order, Str("")), Default(sortable, Bool(FALSE))),
     accessor |-> Str("begin_date"),
     className |-> Undefined,
     id |-> Str("begin_date")]

\* mutant: the id copied from the begin-date column
defineEndDateColumn_copied(order, sortable) ==
    [Cell |-> Fn("defineEndDateColumn.Cell", <<>>),
     Header |-> SortableHeader(Term("l", <<Str("End")>>), Str("end_date"),
                               Default(order, Str("")), Default(sortable, Bool(FALSE))),
     accessor |-> Str("end_date"),
     className |-> Undefined,
     id |-> Str("begin_date")]

defineEndDateColumn(order, sortable) ==
    [Cell |-> Fn("defineEndDateColumn.Cell", <<>>),
     Header |-> SortableHeader(Term("l", <<Str("End")>>), Str("end_date"),
                               Default(order, Str("")), Default(sortable, Bool(FALSE))),
     accessor |-> Str("end_date"),
     className |-> Undefined,
     id |-> Str("end_date")]

ratingsColumn ==
    [Cell |-> Fn("ratingsColumn.Cell", <<>>),
     Header |-> Term("N_l", <<Str("Rating")>>),
     accessor |-> Str("rating"),
     className |-> Undefined,
     id |-> Undefined]

seriesOrderingTypeColumn ==
    [Cell |-> Fn("seriesOrderingTypeColumn.Cell", <<>>),
     Header |-> Term("N_l", <<Str("Ordering Type")>>),
     accessor |-> Str("orderingTypeID"),
     className |-> Undefined,
     id |-> Undefined]

subscriptionColumn ==
    [Cell |-> Fn("subscriptionColumn.Cell", <<>>),
     Header |-> Term("N_l", <<Str("Subscribed")>>),
     accessor |-> Str("subscribed"),
     className |-> Undefined,
     id |-> Undefined]

defineActionsColumn(actions) ==
    [Cell |-> Fn("defineActionsColumn.Cell", <<actions>>),
     Header |-> Term("l", <<Str("Actions")>>),
     accessor |-> Str("id"),
     className |-> Str("actions"),
     id |-> Str("actions")]

\* ------------------------------------------------------------------ cells
defineCheckboxColumn_Cell(name, value) ==
    Return(Element("input", [name |-> name, type |-> Str("checkbox"), value |-> value]))

instrumentDescriptionColumn_Cell(value) ==
    IF Truthy(value)
    THEN LET text == Term("l_instrument_descriptions", <<value>>)
         IN  [out |-> Term("expand2react", <<text>>),
              calls |-> <<text, Term("expand2react", <<text>>)>>]
    ELSE Return(Null)

defineNameColumn_Cell(original) ==
    Return(Element("DescriptiveLink", [entity |-> original]))

\* mutant: value != null in place of the truthiness test
defineTypeColumn_Cell_notNull(typeContext, value) ==
    IF ~Nullish(value)
    THEN Invoke("lp_attributes", <<value, typeContext>>)
    ELSE Return(Null)

defineTypeColumn_Cell(typeContext, value) ==
    IF Truthy(value)
    THEN Invoke("lp_attributes", <<value, typeContext>>)
    ELSE Return(Null)

\* mutant: the cell shows the coalesced value
defineTextColumn_Cell_coalesced(getText, original) ==
    Return(Coalesce(CallFn(getText, original), Str("")))

defineTextColumn_Cell(getText, original) == Return(CallFn(getText, original))

\* mutant: getText(row) || ''
defineTextColumn_accessor_or(getText, row) ==
    IF Truthy(CallFn(getText, row)) THEN CallFn(getText, row) ELSE Str("")

defineTextColumn_accessor(getText, row) == Coalesce(CallFn(getText, row), Str(""))

defineEntityColumn_Cell(getEntity, original) ==
    LET entity == CallFn(getEntity, original)
    IN  Return(IF Truthy(entity)
               THEN Element("DescriptiveLink", [entity |-> entity])
               ELSE Null)

\* mutant: getEntity(row).name without the optional chaining
defineEntityColumn_accessor_unchained(getEntity, row) ==
    Coalesce(GetProp(CallFn(getEntity, row), "name"), Str(""))

defineEntityColumn_accessor(getEntity, row) ==
    Coalesce(OptGet(CallFn(getEntity, row), "name"), Str(""))

defineBeginDateColumn_Cell(value) == Invoke("formatDate", <<value>>)

defineEndDateColumn_Cell(original) == Invoke("formatEndDate", <<original>>)

ratingsColumn_Cell(original) ==
    Return(Element("RatingStars", [entity |-> original]))

\* mutant: orderingType.name read without testing orderingType
seriesOrderingTypeColumn_Cell_unchecked(value) ==
    LET orderingType == Index(GetProp(linkedEntities, "series_ordering_type"), value)
        name == GetProp(orderingType, "name")
    IN  IF name = TypeError THEN Return(TypeError)
        ELSE Invoke("lp_attributes", <<name, Str("series_ordering_type")>>)

seriesOrderingTypeColumn_Cell(value) ==
    LET orderingType == Index(GetProp(linkedEntities, "series_ordering_type"), value)
    IN  IF orderingType = TypeError THEN Return(TypeError)
        ELSE IF Truthy(orderingType)
        THEN Invoke("lp_attributes",
                    <<GetProp(orderingType, "name"), Str("series_ordering_type")>>)
        ELSE Return(Null)

subscriptionColumn_Cell(value) == Invoke("yesNo", <<value>>)

ActionKey(actionPair, index) ==
    Str(actionPair.items[2].s \o (IF index = 0 THEN "-first" ELSE ""))

\* mutant: the separator also precedes the first link
defineActionsColumn_Cell_leading(actions, original) ==
    Return(Fragment(Undefined,
        [i \in 1..Len(actions.items) |->
            LET actionPair == actions.items[i]
                index == i - 1
            IN  Fragment(ActionKey(actionPair, index),
                    <<Str(" | "),
                      Element("EntityLink",
                              [content |-> actionPair.items[1],
                               entity |-> original,
                               subPath |-> actionPair.items[2]])>>)]))

defineActionsColumn_Cell(actions, original) ==
    Return(Fragment(Undefined,
        [i \in 1..Len(actions.items) |->
            LET actionPair == actions.items[i]
                index == i - 1
            IN  Fragment(ActionKey(actionPair, index),
                    <<IF index = 0 THEN Null ELSE Str(" | "),
                      Element("EntityLink",
                              [content |-> actionPair.items[1],
                               entity |-> original,
                               subPath |-> actionPair.items[2]])>>)]))

\* the table library's use of a descriptor: a string accessor reads that
\* property of the row, a function accessor is applied to the row
AccessorValue(desc, row) ==
    IF desc.accessor.t = "string"
    THEN Get(row, desc.accessor.s)
    ELSE IF desc.accessor.code = "defineTextColumn.accessor"
    THEN defineTextColumn_accessor(desc.accessor.env[1], row)
    ELSE defineEntityColumn_accessor(desc.accessor.env[1], row)

\* Cell({cell: {value}, row: {original}})
CallCell(desc, value, original) ==
    LET code == desc.Cell.code
        env == desc.Cell.env
    IN  CASE code = "defineCheckboxColumn.Cell" -> defineCheckboxColumn_Cell(env[1], value)
          [] code = "instrumentDescriptionColumn.Cell" -> instrumentDescriptionColumn_Cell(value)
          [] code = "defineNameColumn.Cell" -> defineNameColumn_Cell(original)
          [] code = "defineTypeColumn.Cell" -> defineTypeColumn_Cell(env[1], value)
          [] code = "defineTextColumn.Cell" -> defineTextColumn_Cell(env[1], original)
          [] code = "defineEntityColumn.Cell" -> defineEntityColumn_Cell(env[1], original)
          [] code = "defineBeginDateColumn.Cell" -> defineBeginDateColumn_Cell(value)
          [] code = "defineEndDateColumn.Cell" -> defineEndDateColumn_Cell(original)
          [] code = "ratingsColumn.Cell" -> ratingsColumn_Cell(original)
          [] code = "seriesOrderingTypeColumn.Cell" -> seriesOrderingTypeColumn_Cell(value)
          [] code = "subscriptionColumn.Cell" -> subscriptionColumn_Cell(value)
          [] code = "defineActionsColumn.Cell" -> defineActionsColumn_Cell(env[1], original)

\* the module's exports, by name
Export(fn, args) ==
    CASE fn = "defineCheckboxColumn" -> defineCheckboxColumn(args[1])
      [] fn = "instrumentDescriptionColumn" -> instrumentDescriptionColumn
      [] fn = "defineNameColumn" -> defineNameColumn(args[1], args[2], args[3])
      [] fn = "defineTypeColumn" -> defineTypeColumn(args[1], args[2], args[3])
      [] fn = "defineTextColumn" ->
            defineTextColumn(args[1], args[2], args[3], args[4], args[5])
      [] fn = "defineEntityColumn" ->
            defineEntityColumn(args[1], args[2], args[3], args[4], args[5])
      [] fn = "defineBeginDateColumn" -> defineBeginDateColumn(args[1], args[2])
      [] fn = "defineEndDateColumn" -> defineEndDateColumn(args[1], args[2])
      [] fn = "ratingsColumn" -> ratingsColumn
      [] fn = "seriesOrderingTypeColumn" -> seriesOrderingTypeColumn
      [] fn = "subscriptionColumn" -> subscriptionColumn
      [] fn = "defineActionsColumn" -> defineActionsColumn(args[1])

\* ----------------------------------------------------------------- inputs
Entity(id, name) == [t |-> "object", id |-> Num(id), name |-> name]
PartialDate(year) == [t |-> "object", year |-> Num(year)]

\* rows: a field a row lacks is left out of the record
Rows ==
    << [t |-> "object", id |-> Num(1), name |-> Str("Alpha"), typeName |-> Str("Group"),
        description |-> Str("A plucked lute"), begin_date |-> PartialDate(1990),
        end_date |-> PartialDate(1999), ended |-> Bool(TRUE), rating |-> Num(80),
        subscribed |-> Bool(TRUE), orderingTypeID |-> Num(1),
        comment |-> Str("live"), count |-> Num(3), artist |-> Entity(10, Str("Bach"))],
       [t |-> "object", id |-> Num(2), name |-> Str("Beta"),
        begin_date |-> Null, end_date |-> Null, ended |-> Bool(FALSE), rating |-> Null,
        subscribed |-> Bool(FALSE),
        comment |-> Null, count |-> Num(0), artist |-> Null],
       [t |-> "object", id |-> Num(3), name |-> Str("Gamma"), typeName |-> Str(""),
        description |-> Str(""), begin_date |-> PartialDate(2001),
        end_date |-> Null, ended |-> Bool(TRUE), rating |-> Num(0),
        subscribed |-> Bool(FALSE), orderingTypeID |-> Num(2),
        comment |-> Undefined],
       [t |-> "object", id |-> Num(4), name |-> Str("Delta"), typeName |-> Null,
        description |-> Null, begin_date |-> Null,
        end_date |-> PartialDate(2010), ended |-> Bool(TRUE), rating |-> Num(40),
        subscribed |-> Bool(TRUE), orderingTypeID |-> Num(3),
        comment |-> Str(""), count |-> Num(7), artist |-> Entity(11, Null)],
       [t |-> "object", id |-> Num(5), name |-> Str("Epsilon"), typeName |-> Str("Person"),
        description |-> Str("A bowed viol"), begin_date |-> PartialDate(1985),
        end_date |-> Null, ended |-> Bool(FALSE), rating |-> Null,
        subscribed |-> Bool(FALSE), orderingTypeID |-> Num(2),
        comment |-> Str("demo"), count |-> Null,
        artist |-> [t |-> "object", id |-> Num(12)]] >>

Registry(entries) ==
    [t |-> "object", series_ordering_type |-> [t |-> "object", entries |-> entries]]

OrderingType(id, name) == [t |-> "object", id |-> Num(id), name |-> Str(name)]

Registries ==
    { Registry(<<>>),
      Registry(<<OrderingType(1, "Automatic")>>),
      Registry(<<OrderingType(1, "Automatic"), OrderingType(2, "Manual")>>) }

Orders == {Undefined, Str("-name")}
Sortables == {Undefined, Bool(TRUE), Bool(FALSE)}
Titles == {Str("Title")}
TypeContexts == {Str("area_type"), Str("series_type")}
CheckboxNames == {Str("remove"), Str("merge")}
ColumnNames == {Str("comment"), Str("artist"), Str("name")}
TextGetters == {Extract("comment"), Extract("count")}
EntityGetters == {Extract("artist")}

ActionPairs ==
    { Array(<<Str("Edit"), Str("edit")>>),
      Array(<<Str("Remove"), Str("remove")>>),
      Array(<<Str("Delete"), Str("remove")>>) }

ActionLists ==
    {Array(s) : s \in UNION {[1..n -> ActionPairs] : n \in 0..MaxActions}}

\* the argument values the table assembly draws from
TableOrders == {Str("-name")}
TableSortables == {Undefined, Bool(TRUE)}
TableGetters == {Extract("comment")}
TableActionLists ==
    { Array(<<>>),
      Array(<<Array(<<Str("Edit"), Str("edit")>>),
              Array(<<Str("Remove"), Str("remove")>>)>>) }

\* ------------------------------------------------------------------ state
Init ==
    /\ data = Rows
    /\ linkedEntities \in Registries
    /\ rendered = None
    /\ again = None
    /\ columns = <<>>

\* build the descriptor, derive the cell's value with its accessor, render the cell
Result(fn, args, r) ==
    LET desc == Export(fn, args)
        row == data[r]
        value == AccessorValue(desc, row)
        cell == CallCell(desc, value, row)
    IN  [fn |-> fn, args |-> args, row |-> r, desc |-> desc,
         value |-> value, cell |-> cell.out, calls |-> cell.calls]

RenderCheckboxColumn ==
    \E name \in CheckboxNames, r \in DOMAIN data :
        /\ rendered = None
        /\ rendered' = Result("defineCheckboxColumn", <<name>>, r)
        /\ UNCHANGED <<data, linkedEntities, again, columns>>

RenderInstrumentDescriptionColumn ==
    \E r \in DOMAIN data :
        /\ rendered = None
        /\ rendered' = Result("instrumentDescriptionColumn", <<>>, r)
        /\ UNCHANGED <<data, linkedEntities, again, columns>>

RenderNameColumn ==
    \E title \in Titles, order \in Orders, sortable \in Sortables, r \in DOMAIN data :
        /\ rendered = None
        /\ rendered' = Result("defineNameColumn", <<title, order, sortable>>, r)
        /\ UNCHANGED <<data, linkedEntities, again, columns>>

RenderTypeColumn ==
    \E typeContext \in TypeContexts, order \in Orders, sortable \in Sortables,
       r \in DOMAIN data :
        /\ rendered = None
        /\ rendered' = Result("defineTypeColumn", <<typeContext, order, sortable>>, r)
        /\ UNCHANGED <<data, linkedEntities, again, columns>>

RenderTextColumn ==
    \E getText \in TextGetters, columnName \in ColumnNames, title \in Titles,
       order \in Orders, sortable \in Sortables, r \in DOMAIN data :
        /\ rendered = None
        /\ rendered' = Result("defineTextColumn", <<getText, columnName, title, order, sortable>>, r)
        /\ UNCHANGED <<data, linkedEntities, again, columns>>

RenderEntityColumn ==
    \E getEntity \in EntityGetters, columnName \in ColumnNames, title \in Titles,
       order \in Orders, sortable \in Sortables, r \in DOMAIN data :
        /\ rendered = None
        /\ rendered' = Result("defineEntityColumn", <<getEntity, columnName, title, order, sortable>>, r)
        /\ UNCHANGED <<data, linkedEntities, again, columns>>

RenderBeginDateColumn ==
    \E order \in Orders, sortable \in Sortables, r \in DOMAIN data :
        /\ rendered = None
        /\ rendered' = Result("defineBeginDateColumn", <<order, sortable>>, r)
        /\ UNCHANGED <<data, linkedEntities, again, columns>>

RenderEndDateColumn ==
    \E order \in Orders, sortable \in Sortables, r \in DOMAIN data :
        /\ rendered = None
        /\ rendered' = Result("defineEndDateColumn", <<order, sortable>>, r)
        /\ UNCHANGED <<data, linkedEntities, again, columns>>

RenderRatingsColumn ==
    \E r \in DOMAIN data :
        /\ rendered = None
        /\ rendered' = Result("ratingsColumn", <<>>, r)
        /\ UNCHANGED <<data, linkedEntities, again, columns>>

RenderSeriesOrderingTypeColumn ==
    \E r \in DOMAIN data :
        /\ rendered = None
        /\ rendered' = Result("seriesOrderingTypeColumn", <<>>, r)
        /\ UNCHANGED <<data, linkedEntities, again, columns>>

RenderSubscriptionColumn ==
    \E r \in DOMAIN data :
        /\ rendered = None
        /\ rendered' = Result("subscriptionColumn", <<>>, r)
        /\ UNCHANGED <<data, linkedEntities, again, columns>>

RenderActionsColumn ==
    \E actions \in ActionLists, r \in DOMAIN data :
        /\ rendered = None
        /\ rendered' = Result("defineActionsColumn", <<actions>>, r)
        /\ UNCHANGED <<data, linkedEntities, again, columns>>

\* the same export used a second time with identical arguments, on the same row
CallAgain ==
    /\ rendered # None
    /\ again = None
    /\ again' = Result(rendered.fn, rendered.args, rendered.row)
    /\ UNCHANGED <<data, linkedEntities, rendered, columns>>

\* the descriptors are dropped when the table renders anew
Discard ==
    /\ rendered # None
    /\ rendered' = None
    /\ again' = None
    /\ UNCHANGED <<data, linkedEntities, columns>>

Next ==
    \/ RenderCheckboxColumn
    \/ RenderInstrumentDescriptionColumn
    \/ RenderNameColumn
    \/ RenderTypeColumn
    \/ RenderTextColumn
    \/ RenderEntityColumn
    \/ RenderBeginDateColumn
    \/ RenderEndDateColumn
    \/ RenderRatingsColumn
    \/ RenderSeriesOrderingTypeColumn
    \/ RenderSubscriptionColumn
    \/ RenderActionsColumn
    \/ CallAgain
    \/ Discard

Spec == Init /\ [][Next]_vars

\* ------------------------------------------------------ assembling a table
Built(fn, args) == [fn |-> fn, args |-> args, desc |-> Export(fn, args)]

AddCheckboxColumn ==
    \E name \in CheckboxNames : /\ Len(columns) < MaxColumns
 /\ columns' = Append(columns, Built("defineCheckboxColumn", <<name>>))
 /\ UNCHANGED <<data, linkedEntities, rendered, again>>

AddInstrumentDescriptionColumn ==
    /\ Len(columns) < MaxColumns
    /\ columns' = Append(columns, Built("instrumentDescriptionColumn", <<>>))
    /\ UNCHANGED <<data, linkedEntities, rendered, again>>

AddNameColumn ==
    \E title \in Titles, order \in TableOrders, sortable \in TableSortables :
        /\ Len(columns) < MaxColumns
        /\ columns' = Append(columns, Built("defineNameColumn", <<title, order, sortable>>))
        /\ UNCHANGED <<data, linkedEntities, rendered, again>>

AddTypeColumn ==
    \E typeContext \in TypeContexts, order \in TableOrders, sortable \in TableSortables :
        /\ Len(columns) < MaxColumns
        /\ columns' = Append(columns, Built("defineTypeColumn", <<typeContext, order, sortable>>))
        /\ UNCHANGED <<data, linkedEntities, rendered, again>>

AddTextColumn ==
    \E getText \in TableGetters, columnName \in ColumnNames, title \in Titles,
       order \in TableOrders, sortable \in TableSortables :
        /\ Len(columns) < MaxColumns
        /\ columns' = Append(columns, Built("defineTextColumn", <<getText, columnName, title, order, sortable>>))
        /\ UNCHANGED <<data, linkedEntities, rendered, again>>

AddEntityColumn ==
    \E getEntity \in EntityGetters, columnName \in ColumnNames, title \in Titles,
       order \in TableOrders, sortable \in TableSortables :
        /\ Len(columns) < MaxColumns
        /\ columns' = Append(columns, Built("defineEntityColumn", <<getEntity, columnName, title, order, sortable>>))
        /\ UNCHANGED <<data, linkedEntities, rendered, again>>

AddBeginDateColumn ==
    \E order \in TableOrders, sortable \in TableSortables :
        /\ Len(columns) < MaxColumns
        /\ columns' = Append(columns, Built("defineBeginDateColumn", <<order, sortable>>))
        /\ UNCHANGED <<data, linkedEntities, rendered, again>>

AddEndDateColumn ==
    \E order \in TableOrders, sortable \in TableSortables :
        /\ Len(columns) < MaxColumns
        /\ columns' = Append(columns, Built("defineEndDateColumn", <<order, sortable>>))
        /\ UNCHANGED <<data, linkedEntities, rendered, again>>

AddRatingsColumn ==
    /\ Len(columns) < MaxColumns
    /\ columns' = Append(columns, Built("ratingsColumn", <<>>))
    /\ UNCHANGED <<data, linkedEntities, rendered, again>>

AddSeriesOrderingTypeColumn ==
    /\ Len(columns) < MaxColumns
    /\ columns' = Append(columns, Built("seriesOrderingTypeColumn", <<>>))
    /\ UNCHANGED <<data, linkedEntities, rendered, again>>

AddSubscriptionColumn ==
    /\ Len(columns) < MaxColumns
    /\ columns' = Append(columns, Built("subscriptionColumn", <<>>))
    /\ UNCHANGED <<data, linkedEntities, rendered, again>>

AddActionsColumn ==
    \E actions \in TableActionLists : /\ Len(columns) < MaxColumns
 /\ columns' = Append(columns, Built("defineActionsColumn", <<actions>>))
 /\ UNCHANGED <<data, linkedEntities, rendered, again>>

NextTable ==
    \/ AddCheckboxColumn
    \/ AddInstrumentDescriptionColumn
    \/ AddNameColumn
    \/ AddTypeColumn
    \/ AddTextColumn
    \/ AddEntityColumn
    \/ AddBeginDateColumn
    \/ AddEndDateColumn
    \/ AddRatingsColumn
    \/ AddSeriesOrderingTypeColumn
    \/ AddSubscriptionColumn
    \/ AddActionsColumn

SpecTable == Init /\ [][NextTable]_vars

\* ----------------------------------------------------------------- claims
Called(fn) == rendered # None /\ rendered.fn = fn
RenderedRow == data[rendered.row]

\* C1: the accessor of a text column never yields null or undefined: it is the
\* empty string when getText(row) is null or undefined and getText(row)
\* unchanged otherwise (0 and '' included).
C1_TextAccessor ==
    Called("defineTextColumn") =>
        LET raw == CallFn(rendered.args[1], RenderedRow)
        IN  /\ ~Nullish(rendered.value)
            /\ rendered.value # TypeError
            /\ rendered.value = (IF raw = Null \/ raw = Undefined THEN Str("") ELSE raw)

C1_Witness ==
    /\ Called("defineTextColumn")
    /\ CallFn(rendered.args[1], RenderedRow) = Null
    /\ rendered.value = Str("")

\* C2: the accessor of an entity column yields the extracted entity's name when
\* there is an entity with a name, and the empty string when getEntity(row) is
\* null/undefined or the entity's name is; it never raises.
C2_EntityAccessor ==
    Called("defineEntityColumn") =>
        LET entity == CallFn(rendered.args[1], RenderedRow)
            named == /\ entity # Null
                     /\ entity # Undefined
                     /\ "name" \in DOMAIN entity
                     /\ entity.name # Null
                     /\ entity.name # Undefined
        IN  /\ rendered.value # TypeError
            /\ ~Nullish(rendered.value)
            /\ rendered.value = (IF named THEN entity.name ELSE Str(""))

C2_Witness ==
    /\ Called("defineEntityColumn")
    /\ CallFn(rendered.args[1], RenderedRow) = Null
    /\ rendered.value = Str("")

\* what React puts on the page for a node: fragments are flattened, null and
\* undefined show nothing
RECURSIVE Concat(_)
Concat(seqs) == IF Len(seqs) = 0 THEN <<>> ELSE Head(seqs) \o Concat(Tail(seqs))

RECURSIVE Nodes(_)
Nodes(node) ==
    IF node.t = "fragment"
    THEN Concat([i \in 1..Len(node.children) |-> Nodes(node.children[i])])
    ELSE IF Nullish(node) THEN <<>> ELSE <<node>>

ActionLink(actionPair, row) ==
    Element("EntityLink",
            [content |-> actionPair.items[1], entity |-> row, subPath |-> actionPair.items[2]])

Separators(nodes) == {k \in 1..Len(nodes) : nodes[k] = Str(" | ")}

\* C3: the actions cell shows exactly one link per [label, path] pair, in the
\* order of the pairs, each with its label, its path and the row; ' | ' stands
\* before every link but the first, so n links have n-1 separators and an
\* empty list shows nothing.
C3_ActionsCell ==
    Called("defineActionsColumn") =>
        LET pairs == rendered.args[1].items
            n == Len(pairs)
            nodes == Nodes(rendered.cell)
        IN  /\ Len(nodes) = (IF n = 0 THEN 0 ELSE 2 * n - 1)
            /\ \A i \in 1..n : nodes[2 * i - 1] = ActionLink(pairs[i], RenderedRow)
            /\ \A i \in 2..n : nodes[2 * i - 2] = Str(" | ")
            /\ Cardinality(Separators(nodes)) = (IF n = 0 THEN 0 ELSE n - 1)

C3_Witness ==
    /\ Called("defineActionsColumn")
    /\ Len(rendered.args[1].items) = 2
    /\ Len(Nodes(rendered.cell)) = 3

\* C4: the keys of the links of one actions cell are pairwise distinct.
C4_KeysDistinct ==
    Called("defineActionsColumn") =>
        \A i, j \in 1..Len(rendered.cell.children) :
            i # j => rendered.cell.children[i].key # rendered.cell.children[j].key

SortableFactories ==
    {"defineNameColumn", "defineTypeColumn", "defineTextColumn", "defineEntityColumn",
     "defineBeginDateColumn", "defineEndDateColumn"}

ColumnTitle(fn, args) ==
    CASE fn = "defineNameColumn" -> args[1]
      [] fn = "defineTypeColumn" -> Term("l", <<Str("Type")>>)
      [] fn \in {"defineTextColumn", "defineEntityColumn"} -> args[3]
      [] fn = "defineBeginDateColumn" -> Term("l", <<Str("Begin")>>)
      [] fn = "defineEndDateColumn" -> Term("l", <<Str("End")>>)

\* C5: with sortable true the header is a sortable-header control labelled
\* with the column title, named after the descriptor's id and given the order
\* token unchanged ('' when omitted); with sortable false or omitted the
\* header is the title itself.
C5_SortableHeader ==
    (rendered # None /\ rendered.fn \in SortableFactories) =>
        LET args == rendered.args
            order == args[Len(args) - 1]
            sortable == args[Len(args)]
            title == ColumnTitle(rendered.fn, args)
            desc == rendered.desc
        IN  IF sortable = Bool(TRUE)
            THEN desc.Header =
                    Element("SortableTableHeader",
                            [label |-> title, name |-> desc.id,
                             order |-> IF order = Undefined THEN Str("") ELSE order])
            ELSE desc.Header = title

C5_Witness ==
    /\ Called("defineBeginDateColumn")
    /\ rendered.args = <<Str("-name"), Bool(TRUE)>>
    /\ rendered.desc.Header.t = "element"
    /\ rendered.desc.Header.props.order = Str("-name")

\* C6: for a row whose typeName is undefined, null or '' the type cell is null
\* and no attribute label is looked up; otherwise the cell is the label of
\* that typeName looked up in the column's category.
C6_TypeCell ==
    Called("defineTypeColumn") =>
        LET typeName == Get(RenderedRow, "typeName")
        IN  IF typeName \in {Undefined, Null, Str("")}
            THEN rendered.cell = Null /\ rendered.calls = <<>>
            ELSE rendered.cell = Term("lp_attributes", <<typeName, rendered.args[1]>>)

C6_Witness ==
    /\ Called("defineTypeColumn")
    /\ Get(RenderedRow, "typeName") = Str("")
    /\ rendered.cell = Null

\* C8: the text cell shows getText(row) itself: it equals the accessor's value
\* when getText(row) is neither null nor undefined, and differs from it (the
\* accessor giving '') exactly when it is.
C8_TextCellRaw ==
    Called("defineTextColumn") =>
        LET raw == CallFn(rendered.args[1], RenderedRow)
        IN  /\ rendered.cell = raw
            /\ (rendered.cell = rendered.value) <=> (raw # Null /\ raw # Undefined)
            /\ (raw = Null \/ raw = Undefined) => rendered.value = Str("")

C8_Witness ==
    /\ Called("defineTextColumn")
    /\ rendered.cell = Undefined
    /\ rendered.value = Str("")

C9_Cell ==
    Called("seriesOrderingTypeColumn") =>
        LET id == Get(RenderedRow, "orderingTypeID")
            known == linkedEntities.series_ordering_type.entries
        IN  IF id.t = "number" /\ id.n \in DOMAIN known
            THEN rendered.cell =
                    Term("lp_attributes", <<known[id.n].name, Str("series_ordering_type")>>)
            ELSE rendered.cell = Null /\ rendered.calls = <<>>

\* C9: the ordering-type cell is the 'series_ordering_type' label of the name
\* of the registry entry under the row's orderingTypeID, and null, without
\* raising, when the row has no orderingTypeID or the registry no such entry;
\* no step changes the registry.
C9_OrderingTypeCell == [](C9_Cell) /\ [][linkedEntities' = linkedEntities]_vars

C9_Witness ==
    /\ Called("seriesOrderingTypeColumn")
    /\ Get(RenderedRow, "orderingTypeID") = Num(2)
    /\ 2 \notin DOMAIN linkedEntities.series_ordering_type.entries
    /\ rendered.cell = Null

ConstantColumns ==
    {"instrumentDescriptionColumn", "ratingsColumn", "seriesOrderingTypeColumn",
     "subscriptionColumn"}

NamedByCaller(col) == col.fn \in {"defineTextColumn", "defineEntityColumn"}

FixedIds ==
    {Str("checkbox"), Str("name"), Str("type"), Str("begin_date"), Str("end_date"),
     Str("actions")}

FixedAccessors ==
    {Str("description"), Str("rating"), Str("orderingTypeID"), Str("subscribed")}

\* two columns that one table may hold together: of different kinds, or both
\* named by the caller with different names; a caller's name is none of `fixed`
MayShareTable(a, b, fixed) ==
    /\ NamedByCaller(a) => a.args[2] \notin fixed
    /\ NamedByCaller(b) => b.args[2] \notin fixed
    /\ IF NamedByCaller(a) /\ NamedByCaller(b)
       THEN a.args[2] # b.args[2]
       ELSE NamedByCaller(a) \/ NamedByCaller(b) \/ a.fn # b.fn

\* the id, or the accessor's property name where the descriptor has no id
ColumnKey(desc) == IF desc.id # Undefined THEN desc.id ELSE desc.accessor

\* C7 as stated: every descriptor carries an id, and the ids of the columns of
\* one table are pairwise distinct.
C7_EveryColumnHasDistinctId ==
    /\ \A i \in DOMAIN columns : columns[i].desc.id # Undefined
    /\ \A i, j \in DOMAIN columns :
        (i # j /\ MayShareTable(columns[i], columns[j], FixedIds))
            => columns[i].desc.id # columns[j].desc.id

\* C7 amended: a descriptor built by a define...Column function carries an id,
\* the four constant descriptors carry none and have a property name as their
\* accessor; the id, or failing it the accessor's property name, is pairwise
\* distinct over the columns of one table.
C7_ColumnKeysDistinct ==
    /\ \A i \in DOMAIN columns :
        IF columns[i].fn \in ConstantColumns
        THEN columns[i].desc.id = Undefined /\ columns[i].desc.accessor.t = "string"
        ELSE columns[i].desc.id.t = "string"
    /\ \A i, j \in DOMAIN columns :
        (i # j /\ MayShareTable(columns[i], columns[j], FixedIds \cup FixedAccessors))
            => ColumnKey(columns[i].desc) # ColumnKey(columns[j].desc)

C7_Witness ==
    /\ Len(columns) = 2
    /\ columns[1].fn = "defineBeginDateColumn"
    /\ columns[2].fn = "ratingsColumn"
    /\ ColumnKey(columns[1].desc) = Str("begin_date")
    /\ ColumnKey(columns[2].desc) = Str("rating")

=============================================================================
